---- MODULE Spec2Model ----
(***************************************************************************)
(* Model of superbench's accelerator vendor probe (common/devices/gpu.py)  *)
(* and device-manager facade (common/utils/device_manager.py).             *)
(*                                                                         *)
(* Python values are modelled as follows.                                  *)
(*   None            <<>>                                                  *)
(*   a value v       <<v>>                                                 *)
(*   a pair (a, b)   <<a, b>> of two of the above                          *)
(*   a dict          the sequence of its <<key, value>> items              *)
(* A call's outcome is a record [raised, ret, io]: raised is the exception *)
(* that left the call ("" when it returned), ret the returned value, io    *)
(* whether the call reached a backend, a process or the filesystem.        *)
(***************************************************************************)
EXTENDS Integers, Sequences, FiniteSets, TLC

VARIABLES
    host,       \* the host's artifacts: OS family and the files the code looks at
    backend,    \* the vendor management library: what its calls would do
    pc,         \* the process: "boot", "probed", "ready", "failed", "exited"
    vendor,     \* gpu._vendor
    dm,         \* the module-level device_manager object
    call,       \* the last operation called, its inputs and its outcome
    touched,    \* whether a manager method touched a backend, a process or the filesystem
    lib,        \* the backend library the module imported: "nvml", "rocml" or "none"
    session     \* the session calls the vendor manager instance made on its library

vars == <<host, backend, pc, vendor, dm, call, touched, lib, session>>

\* Bounds of the model.
MaxDev == 2
\* memory locations NVML enumerates (nvml.NVML_MEMORY_LOCATION_COUNT) and GPU
\* blocks amdsmi enumerates (rocml.AmdSmiGpuBlock): the libraries' own numbers
NumLocations == 2
NumBlocks == 2
\* lines of an nvidia-smi output
MaxSmiLines == 4

DevIds == 0 .. (MaxDev - 1)

None == <<>>
Some(v) == <<v>>
NonePair == <<None, None>>

Returned(v) == [raised |-> "", ret |-> v, io |-> FALSE]
Raised(e) == [raised |-> e, ret |-> None, io |-> FALSE]
\* The same outcome, reached through a backend call, a spawned process or the filesystem.
Io(o) == [o EXCEPT !.io = TRUE]

RECURSIVE Perms(_)
Perms(S) ==
    IF S = {} THEN {<<>>}
    ELSE UNION {{<<x>> \o p : p \in Perms(S \ {x})} : x \in S}

\* Every order in which a directory scan may list any set of device nodes.
Listings == UNION {Perms(S) : S \in SUBSET DevIds}

(***************************************************************************)
(* The host.  davinci is the list Path('/dev').glob('davinci[0-9]*')       *)
(* yields (node i stands for /dev/davinci<i>), in the order the directory  *)
(* scan lists it.  A path below /dev/davinci_manager exists only when that *)
(* node is a directory.                                                    *)
(***************************************************************************)
NoLinuxArtifacts ==
    [nvidiactl |-> FALSE, nvidia_nodes |-> FALSE, kfd |-> FALSE, dri |-> FALSE,
     render |-> FALSE, davinci_manager |-> "absent", davinci |-> <<>>,
     minors |-> {}, npu_smi |-> FALSE]

LinuxArtifacts ==
    {a \in [nvidiactl : BOOLEAN, nvidia_nodes : BOOLEAN, kfd : BOOLEAN, dri : BOOLEAN,
            render : BOOLEAN, davinci_manager : {"absent", "chardev", "dir"},
            davinci : Listings, minors : SUBSET DevIds, npu_smi : BOOLEAN] :
        /\ a.davinci_manager # "dir" => a.minors = {}
        /\ ~a.dri => ~a.render}

WithOs(a, os, nv, amd) ==
    [os |-> os, win_nv |-> nv, win_amd |-> amd,
     nvidiactl |-> a.nvidiactl, nvidia_nodes |-> a.nvidia_nodes, kfd |-> a.kfd,
     dri |-> a.dri, render |-> a.render, davinci_manager |-> a.davinci_manager,
     davinci |-> a.davinci, minors |-> a.minors, npu_smi |-> a.npu_smi]

Hosts ==
    {WithOs(a, "Linux", FALSE, FALSE) : a \in LinuxArtifacts}
    \cup {WithOs(NoLinuxArtifacts, "Windows", nv, amd) : nv \in BOOLEAN, amd \in BOOLEAN}
    \cup {WithOs(NoLinuxArtifacts, "Darwin", FALSE, FALSE)}

\* Path('/dev/davinci_manager/desc') / name / 'minor' : exists()
minor_path_exists(h, dev) == h.davinci_manager = "dir" /\ dev \in h.minors

(***************************************************************************)
(* GPU.get_vendor                                                          *)
(***************************************************************************)
get_vendor_amd_first(h) ==
    IF h.os = "Linux" THEN
        IF h.kfd /\ h.dri THEN "amd"
        ELSE IF h.nvidiactl THEN "nvidia"
        ELSE IF h.davinci_manager # "absent" /\ h.davinci # <<>>
                /\ minor_path_exists(h, Head(h.davinci)) THEN "ascend"
        ELSE "none"
    ELSE IF h.os = "Windows" THEN
        IF h.win_amd THEN "amd-graphics"
        ELSE IF h.win_nv THEN "nvidia-graphics"
        ELSE "none"
    ELSE "none"

get_vendor_no_minor_check(h) ==
    IF h.os = "Linux" THEN
        IF h.nvidiactl THEN "nvidia"
        ELSE IF h.kfd /\ h.dri THEN "amd"
        ELSE IF h.davinci_manager # "absent" /\ h.davinci # <<>> THEN "ascend"
        ELSE "none"
    ELSE IF h.os = "Windows" THEN
        IF h.win_nv THEN "nvidia-graphics"
        ELSE IF h.win_amd THEN "amd-graphics"
        ELSE "none"
    ELSE "none"

get_vendor(h) ==
    IF h.os = "Linux" THEN
        IF h.nvidiactl THEN
            \* the glob of nvidia[0-9]* only decides a warning
            "nvidia"
        ELSE IF h.kfd /\ h.dri THEN
            \* the glob of renderD* only decides a warning
            "amd"
        ELSE IF h.davinci_manager # "absent" THEN
            LET ascend_devices == h.davinci IN
            IF ascend_devices = <<>> THEN "none"
            ELSE IF minor_path_exists(h, ascend_devices[1]) THEN "ascend"
            ELSE "none"
        ELSE "none"
    ELSE IF h.os = "Windows" THEN
        IF h.win_nv THEN "nvidia-graphics"
        ELSE IF h.win_amd THEN "amd-graphics"
        ELSE "none"
    ELSE "none"

NoManager == [cls |-> "unbound", device_count |-> 0, has_handlers |-> FALSE,
              device_handlers |-> <<>>]
NoBackend == [fault |-> "none", count |-> 0]
NoCall == [op |-> "", idx |-> 0, input |-> <<>>, out |-> Returned(None)]

\* What a read of gpu.vendor would give if the property probed the host anew.
vendor_recomputed(_vendor, h) == get_vendor(h)

\* GPU.vendor: return self._vendor
GPU_vendor(_vendor, h) == _vendor

(***************************************************************************)
(* The vendor probe alone: GPU() on any host, then calls of get_vendor()   *)
(* and of the vendor property on the unchanged host.                       *)
(***************************************************************************)
ProbeInit ==
    /\ host \in Hosts
    /\ backend = NoBackend
    /\ pc = "boot"
    /\ vendor = "unset"
    /\ dm = NoManager
    /\ call = NoCall
    /\ touched = FALSE
    /\ lib = "none"
    /\ session = <<>>

\* GPU.__init__
GPU_init ==
    /\ pc = "boot"
    /\ vendor' = get_vendor(host)
    /\ pc' = "probed"
    /\ call' = [NoCall EXCEPT !.op = "GPU"]
    /\ UNCHANGED <<host, backend, dm, touched, lib, session>>

\* a later call of gpu.get_vendor()
GetVendor ==
    /\ pc = "probed"
    /\ call' = [NoCall EXCEPT !.op = "get_vendor", !.out = Returned(Some(get_vendor(host)))]
    /\ UNCHANGED <<host, backend, pc, vendor, dm, touched, lib, session>>

\* the vendor property
VendorProperty ==
    /\ pc = "probed"
    /\ call' = [NoCall EXCEPT !.op = "vendor",
                              !.out = Returned(Some(GPU_vendor(vendor, host)))]
    /\ UNCHANGED <<host, backend, pc, vendor, dm, touched, lib, session>>

ProbeNext == GPU_init \/ GetVendor \/ VendorProperty

SpecProbe == ProbeInit /\ [][ProbeNext]_vars

\* The tag of the last get_vendor() call or vendor read, "" when there is none.
DetectedTag ==
    IF call.op \in {"get_vendor", "vendor"} /\ call.out.raised = "" THEN call.out.ret[1]
    ELSE IF call.op = "GPU" THEN vendor
    ELSE ""

NvidiaSignal(h) == h.nvidiactl
AmdSignal(h) == h.kfd /\ h.dri
AscendConfirmed(h) ==
    /\ h.davinci_manager \in {"chardev", "dir"}
    /\ Len(h.davinci) >= 1
    /\ h.davinci_manager = "dir" /\ h.davinci[1] \in h.minors

\* C4: on Linux with neither the NVIDIA nor the AMD signal, detect() returns
\* ascend exactly when the management node exists, at least one indexed device
\* node exists and the first enumerated node has its minor descriptor; in every
\* other such case it returns none.
C4_AscendIff ==
    (DetectedTag # "" /\ host.os = "Linux" /\ ~NvidiaSignal(host) /\ ~AmdSignal(host))
        => /\ (DetectedTag = "ascend") <=> AscendConfirmed(host)
           /\ DetectedTag \in {"ascend", "none"}

C4_Witness ==
    /\ call.op = "get_vendor"
    /\ host.os = "Linux" /\ ~NvidiaSignal(host) /\ ~AmdSignal(host)
    /\ host.davinci_manager = "dir" /\ Len(host.davinci) = 2
    /\ host.davinci[1] \notin host.minors /\ host.davinci[2] \in host.minors
    /\ DetectedTag = "none"

\* The decision table of detect(), first match first.
ExpectedTag(h) ==
    CASE h.os = "Linux" /\ NvidiaSignal(h) -> "nvidia"
      [] h.os = "Linux" /\ ~NvidiaSignal(h) /\ AmdSignal(h) -> "amd"
      [] h.os = "Linux" /\ ~NvidiaSignal(h) /\ ~AmdSignal(h) /\ AscendConfirmed(h) -> "ascend"
      [] h.os = "Windows" /\ h.win_nv -> "nvidia-graphics"
      [] h.os = "Windows" /\ ~h.win_nv /\ h.win_amd -> "amd-graphics"
      [] OTHER -> "none"

\* C5: detect() never raises and returns the tag the ordered decision table
\* gives for the host (NVIDIA before AMD before Ascend on Linux, the NVIDIA
\* pattern before the AMD pattern on Windows, none otherwise); a repeated call
\* on the unchanged host returns the tag the first call returned.
C5_FirstMatchWins ==
    /\ call.out.raised = ""
    /\ DetectedTag # "" => DetectedTag = ExpectedTag(host)
    /\ call.op = "get_vendor" => call.out.ret = Some(vendor)

C5_Witness ==
    /\ call.op = "get_vendor"
    /\ host.os = "Linux" /\ host.nvidiactl /\ ~host.nvidia_nodes
    /\ host.kfd /\ host.dri /\ AscendConfirmed(host)
    /\ DetectedTag = "nvidia"


(***************************************************************************)
(* The vendor backends (py3nvml, amdsmi) are outside the repository: a     *)
(* call of one either returns a value or raises.  "liberr" is the          *)
(* library's own exception (nvml.NVMLError; rocml.AmdSmiLibraryException   *)
(* or AmdSmiParameterException), "other" any other exception.              *)
(***************************************************************************)
Ok(v) == [k |-> "ok", v |-> <<v>>]
LibErr == [k |-> "liberr", v |-> <<>>]
OtherErr == [k |-> "other", v |-> <<>>]
IndexErr == [k |-> "index", v |-> <<>>]
ValueErr == [k |-> "ValueError", v |-> <<>>]
\* the value of an outcome whose k is "ok"
Val(r) == r.v[1]

\* What a backend reading may be (power in milliwatt for NVML).
Readings == {0, 2500}
ScalarOutcomes == {Ok(v) : v \in Readings} \cup {LibErr, OtherErr}
PairOutcomes == {Ok(<<1, 2>>), LibErr, OtherErr}

\* The states the backend may be in at import: which constructor step fails
\* ("init": session init, "enum": device count or handle enumeration) and how
\* many devices it reports.
Backends == [fault : {"none", "init", "enum"}, count : 0 .. MaxDev]

\* range(n) as the list of device handles nvmlDeviceGetHandleByIndex(i) gives.
Handles(n) == [i \in 1 .. n |-> i - 1]

\* lst[idx] of a Python list: a negative index counts from the end.
PyIndex(lst, idx) ==
    IF 0 <= idx /\ idx < Len(lst) THEN Ok(lst[idx + 1])
    ELSE IF idx < 0 /\ -Len(lst) <= idx THEN Ok(lst[Len(lst) + idx + 1])
    ELSE IndexErr

\* nvml.f(self._device_handlers[idx]) or rocml.f(self._device_handlers[idx]):
\* the index is evaluated first, then the backend answers o.
HandleCall(d, idx, o) ==
    IF PyIndex(d.device_handlers, idx).k = "ok" THEN o ELSE IndexErr

Object(cls, n, has, hs) ==
    [cls |-> cls, device_count |-> n, has_handlers |-> has, device_handlers |-> hs]

(***************************************************************************)
(* Constructors.  Each gives [raised, obj, io].                            *)
(***************************************************************************)
DeviceManager_get_device_count == Returned(Some(0))

DeviceManager_init ==
    [raised |-> "", io |-> FALSE,
     obj |-> Object("DeviceManager", DeviceManager_get_device_count.ret[1], FALSE, <<>>)]

\* nvml.nvmlDeviceGetCount()
NvidiaDeviceManager_get_device_count(b) == Io(Returned(Some(b.count)))

NvidiaDeviceManager_init(b) ==
    IF b.fault = "init" THEN [raised |-> "NVMLError", io |-> TRUE, obj |-> NoManager]
    ELSE IF b.fault = "enum" THEN [raised |-> "NVMLError", io |-> TRUE, obj |-> NoManager]
    ELSE LET device_count == NvidiaDeviceManager_get_device_count(b).ret[1] IN
         [raised |-> "", io |-> TRUE,
          obj |-> Object("NvidiaDeviceManager", device_count, TRUE, Handles(device_count))]

\* len(self._device_handlers)
AmdDeviceManager_get_device_count(device_handlers) == Returned(Some(Len(device_handlers)))

AmdDeviceManager_init(b) ==
    IF b.fault = "init" THEN [raised |-> "AmdSmiException", io |-> TRUE, obj |-> NoManager]
    ELSE IF b.fault = "enum" THEN [raised |-> "AmdSmiException", io |-> TRUE, obj |-> NoManager]
    ELSE LET device_handlers == Handles(b.count) IN
         [raised |-> "", io |-> TRUE,
          obj |-> Object("AmdDeviceManager",
                         AmdDeviceManager_get_device_count(device_handlers).ret[1],
                         TRUE, device_handlers)]

\* len(list(Path('/dev').glob('davinci[0-9]*')))
AscendDeviceManager_get_device_count(h) == Io(Returned(Some(Len(h.davinci))))

AscendDeviceManager_init(h) ==
    IF ~h.npu_smi THEN [raised |-> "RuntimeError", io |-> TRUE, obj |-> NoManager]
    ELSE [raised |-> "", io |-> TRUE,
          obj |-> Object("AscendDeviceManager",
                         AscendDeviceManager_get_device_count(h).ret[1], FALSE, <<>>)]

(***************************************************************************)
(* The module-level selection: device_manager = DeviceManager(), then the  *)
(* vendor's manager.  Gives [raised, obj, io]; raised # "" means the       *)
(* exception left the module's import.                                     *)
(***************************************************************************)
select_device_manager(v, h, b) ==
    LET base == DeviceManager_init IN
    IF v \in {"nvidia", "nvidia-graphics"} THEN
        LET made == NvidiaDeviceManager_init(b) IN
        IF made.raised = "" THEN made ELSE [made EXCEPT !.obj = base.obj]
    ELSE IF v \in {"amd", "amd-graphics"} THEN
        LET made == AmdDeviceManager_init(b) IN
        IF made.raised = "" THEN made ELSE [made EXCEPT !.obj = base.obj]
    ELSE IF v = "ascend" THEN
        LET made == AscendDeviceManager_init(h) IN
        \* try: ... except Exception: logger.error(...)
        IF made.raised = "" THEN made
        ELSE [raised |-> "", obj |-> base.obj, io |-> made.io]
    ELSE base


(***************************************************************************)
(* DeviceManager: the base class.                                          *)
(***************************************************************************)
DeviceManager_get_device_compute_capability == Returned(None)
DeviceManager_get_device_utilization(idx) == Returned(None)
DeviceManager_get_device_temperature(idx) == Returned(None)
DeviceManager_get_device_power(idx) == Returned(None)
DeviceManager_get_device_power_limit(idx) == Returned(None)
DeviceManager_get_device_memory(idx) == Returned(NonePair)
DeviceManager_get_device_row_remapped_info(idx) == Returned(None)
DeviceManager_get_device_ecc_error_zero(idx) == Returned(<<Some(0), Some(0)>>)
DeviceManager_get_device_ecc_error(idx) == Returned(NonePair)

\* int(int(x) / 1000) of a non-negative reading
MilliToUnit(x) == x \div 1000

(***************************************************************************)
(* NvidiaDeviceManager.  o is what the backend call does when it is made.  *)
(***************************************************************************)
NvidiaDeviceManager_get_device_compute_capability(d, o) ==
    LET r == HandleCall(d, 0, o) IN
    Io(IF r.k = "ok" THEN Returned(Some(Val(r))) ELSE Returned(None))

NvidiaDeviceManager_get_device_utilization(d, idx, o) ==
    LET r == HandleCall(d, idx, o) IN
    Io(IF r.k = "ok" THEN Returned(Some(Val(r))) ELSE Returned(None))

NvidiaDeviceManager_get_device_temperature(d, idx, o) ==
    LET r == HandleCall(d, idx, o) IN
    Io(IF r.k = "ok" THEN Returned(Some(Val(r))) ELSE Returned(None))

NvidiaDeviceManager_get_device_power(d, idx, o) ==
    LET r == HandleCall(d, idx, o) IN
    Io(IF r.k = "ok" THEN Returned(Some(MilliToUnit(Val(r)))) ELSE Returned(None))

NvidiaDeviceManager_get_device_power_limit(d, idx, o) ==
    LET r == HandleCall(d, idx, o) IN
    Io(IF r.k = "ok" THEN Returned(Some(MilliToUnit(Val(r)))) ELSE Returned(None))

\* Val(o) is the backend's (used, total) of one nvmlDeviceGetMemoryInfo call
NvidiaDeviceManager_get_device_memory(d, idx, o) ==
    LET r == HandleCall(d, idx, o) IN
    Io(IF r.k = "ok" THEN Returned(<<Some(Val(r)[1]), Some(Val(r)[2])>>) ELSE Returned(NonePair))

(***************************************************************************)
(* AmdDeviceManager.                                                       *)
(***************************************************************************)
AmdDeviceManager_get_device_utilization(d, idx, o) ==
    LET r == HandleCall(d, idx, o) IN
    Io(IF r.k = "ok" THEN Returned(Some(Val(r))) ELSE Returned(None))

\* both except clauses leave temp = None
AmdDeviceManager_get_device_temperature(d, idx, o) ==
    LET r == HandleCall(d, idx, o) IN
    Io(IF r.k = "ok" THEN Returned(Some(Val(r))) ELSE Returned(None))

AmdDeviceManager_get_device_power(d, idx, o) ==
    LET r == HandleCall(d, idx, o) IN
    Io(IF r.k = "ok" THEN Returned(Some(Val(r))) ELSE Returned(None))

AmdDeviceManager_get_device_power_limit(d, idx, o) ==
    LET r == HandleCall(d, idx, o) IN
    Io(IF r.k = "ok" THEN Returned(Some(Val(r))) ELSE Returned(None))

\* two backend calls, used then total; os = <<o_used, o_total>>
AmdDeviceManager_get_device_memory(d, idx, os) ==
    LET used == HandleCall(d, idx, os[1])
        total == HandleCall(d, idx, os[2])
    IN  Io(IF used.k = "ok" /\ total.k = "ok"
           THEN Returned(<<Some(Val(used)), Some(Val(total))>>)
           ELSE Returned(NonePair))


(***************************************************************************)
(* ECC counts.  NVIDIA: os[2*loc - 1] and os[2*loc] are what the corrected *)
(* and the uncorrected query of location loc do.  AMD: os[blk] is what the *)
(* one query of block blk does, its value the pair <<correctable_count,    *)
(* uncorrectable_count>>.                                                  *)
(***************************************************************************)
RECURSIVE Nvidia_ecc_loop_fail_on_nvmlerror(_, _, _, _, _, _)
Nvidia_ecc_loop_fail_on_nvmlerror(d, idx, os, loc, corrected_ecc, uncorrected_ecc) ==
    IF loc > NumLocations THEN Returned(<<Some(corrected_ecc), Some(uncorrected_ecc)>>)
    ELSE LET c == HandleCall(d, idx, os[2 * loc - 1])
             u == HandleCall(d, idx, os[2 * loc])
         IN  IF c.k # "ok" \/ u.k # "ok" THEN Returned(NonePair)
             ELSE Nvidia_ecc_loop_fail_on_nvmlerror(d, idx, os, loc + 1,
                                                    corrected_ecc + Val(c), uncorrected_ecc + Val(u))

RECURSIVE Nvidia_ecc_loop(_, _, _, _, _, _)
Nvidia_ecc_loop(d, idx, os, loc, corrected_ecc, uncorrected_ecc) ==
    IF loc > NumLocations THEN Returned(<<Some(corrected_ecc), Some(uncorrected_ecc)>>)
    ELSE LET c == HandleCall(d, idx, os[2 * loc - 1]) IN
         \* except nvml.NVMLError: pass; except Exception: return None, None
         IF c.k \in {"other", "index"} THEN Returned(NonePair)
         ELSE LET corrected == IF c.k = "ok" THEN corrected_ecc + Val(c) ELSE corrected_ecc
                  u == HandleCall(d, idx, os[2 * loc])
              IN  IF u.k \in {"other", "index"} THEN Returned(NonePair)
                  ELSE Nvidia_ecc_loop(d, idx, os, loc + 1, corrected,
                                       IF u.k = "ok" THEN uncorrected_ecc + Val(u)
                                       ELSE uncorrected_ecc)

NvidiaDeviceManager_get_device_ecc_error_strict(d, idx, os) ==
    Io(Nvidia_ecc_loop_fail_on_nvmlerror(d, idx, os, 1, 0, 0))

NvidiaDeviceManager_get_device_ecc_error(d, idx, os) ==
    Io(Nvidia_ecc_loop(d, idx, os, 1, 0, 0))

RECURSIVE Amd_ecc_loop(_, _, _, _, _, _)
Amd_ecc_loop(d, idx, os, blk, corrected_ecc, uncorrected_ecc) ==
    IF blk > NumBlocks THEN Returned(<<Some(corrected_ecc), Some(uncorrected_ecc)>>)
    ELSE LET r == HandleCall(d, idx, os[blk]) IN
         \* every except clause goes on with the next block
         IF r.k = "ok"
         THEN Amd_ecc_loop(d, idx, os, blk + 1,
                           corrected_ecc + Val(r)[1], uncorrected_ecc + Val(r)[2])
         ELSE Amd_ecc_loop(d, idx, os, blk + 1, corrected_ecc, uncorrected_ecc)

AmdDeviceManager_get_device_ecc_error(d, idx, os) ==
    Io(Amd_ecc_loop(d, idx, os, 1, 0, 0))

(***************************************************************************)
(* AscendDeviceManager.  A run of npu-smi is [returncode, stdout]; stdout  *)
(* is the list of its lines, each [label, text]: the text after the label, *)
(* spaces and colon.  A text is a plain integer, a decimal number with one *)
(* fractional digit, or a word the number pattern does not match.  A float *)
(* is kept as ten times its value.                                         *)
(***************************************************************************)
IntText(n) == [k |-> "int", whole |-> n, frac |-> 0]
DecText(n, f) == [k |-> "dec", whole |-> n, frac |-> f]
WordText == [k |-> "word", whole |-> 0, frac |-> 0]
Line(label, text) == [label |-> label, text |-> text]
Run(rc, stdout) == [returncode |-> rc, stdout |-> stdout]

\* _run_npu_smi: None on a non-zero return code, else stdout
run_npu_smi(run) == IF run.returncode # 0 THEN None ELSE Some(run.stdout)

\* if output: (None and the empty string are false)
Truthy(output) == output # None /\ output[1] # <<>>

\* re.search(label *: *([-+]?\d*\.?\d+), output): group(1) of the first match
RECURSIVE re_search(_, _)
re_search(label, stdout) ==
    IF stdout = <<>> THEN None
    ELSE IF Head(stdout).label = label /\ Head(stdout).text.k \in {"int", "dec"}
         THEN Some(Head(stdout).text)
         ELSE re_search(label, Tail(stdout))

\* int(s): ValueError unless s is a plain integer literal
py_int(text) == IF text.k = "int" THEN Ok(text.whole) ELSE ValueErr
\* float(s), times ten
py_float_x10(text) == text.whole * 10 + text.frac

AscendSingleField(label, run) ==
    LET output == run_npu_smi(run) IN
    Io(IF Truthy(output) THEN
           LET match == re_search(label, output[1]) IN
           IF match # None THEN
               LET n == py_int(match[1]) IN
               IF n.k = "ok" THEN Returned(Some(Val(n))) ELSE Raised("ValueError")
           ELSE Returned(None)
       ELSE Returned(None))

AscendDeviceManager_get_device_utilization(idx, run) ==
    AscendSingleField("Aicore Usages Rate(%)", run)

AscendDeviceManager_get_device_temperature(idx, run) ==
    AscendSingleField("NPU Temperature (C)", run)

AscendDeviceManager_get_device_power(idx, run) ==
    AscendSingleField("NPU Real-time Power(W)", run)

AscendDeviceManager_get_device_memory(idx, run) ==
    LET output == run_npu_smi(run) IN
    Io(IF Truthy(output) THEN
           LET total_match == re_search("HBM Capacity(MB)", output[1])
               used_match == re_search("HBM Usages Rate(%)", output[1])
           IN  IF total_match # None /\ used_match # None THEN
                   LET used == py_int(used_match[1]) IN
                   IF used.k # "ok" THEN Raised("ValueError")
                   ELSE Returned(<<Some(Val(used)),
                                   Some([float_x10 |-> py_float_x10(total_match[1]) * Val(used)])>>)
               ELSE Returned(NonePair)
       ELSE Returned(NonePair))

AscendDeviceManager_get_device_ecc_error(idx, run) ==
    LET output == run_npu_smi(run) IN
    Io(IF Truthy(output) THEN
           LET corrected_ecc == re_search("HBM Single Bit Aggregate Total Err Cnt", output[1])
               uncorrected_ecc == re_search("HBM Double Bit Aggregate Total Err Cnt", output[1])
           IN  IF corrected_ecc = None THEN Raised("AttributeError")
               ELSE IF py_int(corrected_ecc[1]).k # "ok" THEN Raised("ValueError")
               ELSE IF uncorrected_ecc = None THEN Raised("AttributeError")
               ELSE IF py_int(uncorrected_ecc[1]).k # "ok" THEN Raised("ValueError")
               ELSE Returned(<<Some(Val(py_int(corrected_ecc[1]))),
                               Some(Val(py_int(uncorrected_ecc[1])))>>)
       ELSE Returned(NonePair))


(***************************************************************************)
(* Text of nvidia-smi.  A string is the sequence of its tokens: words,     *)
(* numerals, and the separators " " (a run of blanks), ":" and "\n".       *)
(***************************************************************************)
Min(S) == CHOOSE x \in S : \A y \in S : x <= y

\* s.find(pat, start): the first 0-based offset at or after start, or -1
PyFind(s, pat, start) ==
    LET from == IF start < 0 THEN (IF Len(s) + start < 0 THEN 0 ELSE Len(s) + start)
                ELSE start
        at == {i \in from .. (Len(s) - Len(pat)) : SubSeq(s, i + 1, i + Len(pat)) = pat}
    IN  IF at = {} THEN -1 ELSE Min(at)

\* s[begin:end] for 0 <= begin, 0 <= end
PySlice(s, begin, end) == SubSeq(s, begin + 1, end)

\* s.split(sep) for a one-token separator
RECURSIVE PySplit(_, _)
PySplit(s, sep) ==
    LET at == {i \in 1 .. Len(s) : s[i] = sep} IN
    IF at = {} THEN <<s>>
    ELSE <<SubSeq(s, 1, Min(at) - 1)>> \o PySplit(SubSeq(s, Min(at) + 1, Len(s)), sep)

Contains(s, tok) == \E i \in 1 .. Len(s) : s[i] = tok

LowerTok(t) ==
    CASE t = "Remapped" -> "remapped" [] t = "Rows" -> "rows"
      [] t = "Correctable" -> "correctable" [] t = "Error" -> "error"
      [] t = "Pending" -> "pending" [] t = "No" -> "no" [] t = "Max" -> "max"
      [] t = "Temperature" -> "temperature" [] t = "Clocks" -> "clocks"
      [] OTHER -> t

\* s.lower()
PyLower(s) == [i \in 1 .. Len(s) |-> LowerTok(s[i])]

\* s.strip()
RECURSIVE PyStrip(_)
PyStrip(s) ==
    IF s = <<>> THEN s
    ELSE IF Head(s) \in {" ", "\n"} THEN PyStrip(Tail(s))
    ELSE IF s[Len(s)] \in {" ", "\n"} THEN PyStrip(SubSeq(s, 1, Len(s) - 1))
    ELSE s

\* s.replace(a, b) for one-token a and b, and s.replace(a, '')
PyReplace(s, a, b) == [i \in 1 .. Len(s) |-> IF s[i] = a THEN b ELSE s[i]]
PyRemove(s, a) == SelectSeq(s, LAMBDA t : t # a)

Numerals == {"0", "2", "640"}
NumeralValue(t) == CASE t = "0" -> 0 [] t = "2" -> 2 [] t = "640" -> 640 [] OTHER -> 0

\* int(s) of a string: blanks around one numeral are accepted
py_int_str(s) ==
    LET t == PyStrip(s) IN
    IF Len(t) = 1 /\ t[1] \in Numerals THEN Ok(NumeralValue(t[1]))
    ELSE ValueErr

\* d[key] = value on the item list of a dict
DictSet(d, key, value) ==
    IF \E i \in 1 .. Len(d) : d[i][1] = key
    THEN [i \in 1 .. Len(d) |-> IF d[i][1] = key THEN <<key, value>> ELSE d[i]]
    ELSE Append(d, <<key, value>>)

RECURSIVE remap_items_keep_banks(_, _)
remap_items_keep_banks(items, metrics) ==
    IF items = <<>> THEN metrics
    ELSE LET key_value == PySplit(Head(items), ":")
             key == <<"gpu_remap_">> \o PyReplace(PyStrip(PyLower(key_value[1])), " ", "_")
             value == py_int_str(PyStrip(key_value[2]))
         IN  IF value.k = "ok"
             THEN remap_items_keep_banks(Tail(items), DictSet(metrics, key, Val(value)))
             ELSE remap_items_keep_banks(Tail(items), metrics)

\* the loop over the lines that hold a colon
RECURSIVE remap_items(_, _)
remap_items(items, metrics) ==
    IF items = <<>> THEN metrics
    ELSE LET key_value == PySplit(Head(items), ":")
             key == <<"gpu_remap_">> \o PyReplace(PyStrip(PyLower(key_value[1])), " ", "_")
             value == py_int_str(PyStrip(PyRemove(key_value[2], "bank(s)")))
         IN  IF value.k = "ok"
             THEN remap_items(Tail(items), DictSet(metrics, key, Val(value)))
             ELSE remap_items(Tail(items), metrics)

parse_remapped_rows_keep_banks(stdout) ==
    LET begin == PyFind(stdout, <<"Remapped", " ", "Rows">>, 0)
        end == PyFind(stdout, <<"Temperature">>, begin)
    IN  IF begin # -1 /\ end # -1 THEN
            LET remapped_info == SelectSeq(PySplit(PySlice(stdout, begin, end), "\n"),
                                           LAMBDA item : Contains(item, ":"))
            IN  Some(remap_items_keep_banks(remapped_info, <<>>))
        ELSE None

\* lines 265-284: the report of a successful nvidia-smi run's stdout
parse_remapped_rows(stdout) ==
    LET begin == PyFind(stdout, <<"Remapped", " ", "Rows">>, 0)
        end == PyFind(stdout, <<"Temperature">>, begin)
    IN  IF begin # -1 /\ end # -1 THEN
            LET remapped_info == SelectSeq(PySplit(PySlice(stdout, begin, end), "\n"),
                                           LAMBDA item : Contains(item, ":"))
            IN  Some(remap_items(remapped_info, <<>>))
        ELSE None

NvidiaDeviceManager_get_device_row_remapped_info(idx, run) ==
    Io(IF run.returncode = 0 THEN Returned(parse_remapped_rows(run.stdout))
       ELSE Returned(None))

\* the lines of a tool's output joined by newlines
RECURSIVE JoinLines(_)
JoinLines(lines) ==
    IF lines = <<>> THEN <<>>
    ELSE IF Len(lines) = 1 THEN lines[1]
    ELSE lines[1] \o <<"\n">> \o JoinLines(Tail(lines))

\* a run of nvidia-smi is kept with its lines; the tool's stdout is their join
Stdout(run) == [returncode |-> run.returncode, stdout |-> JoinLines(run.stdout)]


(***************************************************************************)
(* Method dispatch on the class of device_manager.  input is what the      *)
(* environment does during the call: backend outcomes for the NVIDIA and   *)
(* AMD classes, a tool run for the CLI-backed methods, <<>> when the       *)
(* method asks nothing.                                                    *)
(***************************************************************************)
get_device_count(d, h, b) ==
    CASE d.cls = "NvidiaDeviceManager" -> NvidiaDeviceManager_get_device_count(b)
      [] d.cls = "AmdDeviceManager" -> AmdDeviceManager_get_device_count(d.device_handlers)
      [] d.cls = "AscendDeviceManager" -> AscendDeviceManager_get_device_count(h)
      [] OTHER -> DeviceManager_get_device_count

get_device_compute_capability(d, input) ==
    CASE d.cls = "NvidiaDeviceManager" ->
            NvidiaDeviceManager_get_device_compute_capability(d, input)
      [] OTHER -> DeviceManager_get_device_compute_capability

get_device_utilization(d, idx, input) ==
    CASE d.cls = "NvidiaDeviceManager" -> NvidiaDeviceManager_get_device_utilization(d, idx, input)
      [] d.cls = "AmdDeviceManager" -> AmdDeviceManager_get_device_utilization(d, idx, input)
      [] d.cls = "AscendDeviceManager" -> AscendDeviceManager_get_device_utilization(idx, input)
      [] OTHER -> DeviceManager_get_device_utilization(idx)

get_device_temperature(d, idx, input) ==
    CASE d.cls = "NvidiaDeviceManager" -> NvidiaDeviceManager_get_device_temperature(d, idx, input)
      [] d.cls = "AmdDeviceManager" -> AmdDeviceManager_get_device_temperature(d, idx, input)
      [] d.cls = "AscendDeviceManager" -> AscendDeviceManager_get_device_temperature(idx, input)
      [] OTHER -> DeviceManager_get_device_temperature(idx)

get_device_power(d, idx, input) ==
    CASE d.cls = "NvidiaDeviceManager" -> NvidiaDeviceManager_get_device_power(d, idx, input)
      [] d.cls = "AmdDeviceManager" -> AmdDeviceManager_get_device_power(d, idx, input)
      [] d.cls = "AscendDeviceManager" -> AscendDeviceManager_get_device_power(idx, input)
      [] OTHER -> DeviceManager_get_device_power(idx)

get_device_power_limit(d, idx, input) ==
    CASE d.cls = "NvidiaDeviceManager" -> NvidiaDeviceManager_get_device_power_limit(d, idx, input)
      [] d.cls = "AmdDeviceManager" -> AmdDeviceManager_get_device_power_limit(d, idx, input)
      [] OTHER -> DeviceManager_get_device_power_limit(idx)

get_device_memory(d, idx, input) ==
    CASE d.cls = "NvidiaDeviceManager" -> NvidiaDeviceManager_get_device_memory(d, idx, input)
      [] d.cls = "AmdDeviceManager" -> AmdDeviceManager_get_device_memory(d, idx, input)
      [] d.cls = "AscendDeviceManager" -> AscendDeviceManager_get_device_memory(idx, input)
      [] OTHER -> DeviceManager_get_device_memory(idx)

get_device_row_remapped_info(d, idx, input) ==
    CASE d.cls = "NvidiaDeviceManager" ->
            NvidiaDeviceManager_get_device_row_remapped_info(idx, Stdout(input))
      [] OTHER -> DeviceManager_get_device_row_remapped_info(idx)

get_device_ecc_error(d, idx, input) ==
    CASE d.cls = "NvidiaDeviceManager" -> NvidiaDeviceManager_get_device_ecc_error(d, idx, input)
      [] d.cls = "AmdDeviceManager" -> AmdDeviceManager_get_device_ecc_error(d, idx, input)
      [] d.cls = "AscendDeviceManager" -> AscendDeviceManager_get_device_ecc_error(idx, input)
      [] OTHER -> DeviceManager_get_device_ecc_error(idx)

(***************************************************************************)
(* What the environment may do during a call.                              *)
(***************************************************************************)
\* The device indices callers pass: in range, above it, and negative.
Indices == (0 - MaxDev - 1) .. MaxDev

\* The devices the host really has, which is what a CLI tool is asked about.
HostDeviceCount(d, h, b) ==
    CASE d.cls \in {"NvidiaDeviceManager", "AmdDeviceManager"} -> b.count
      [] d.cls = "AscendDeviceManager" -> Len(h.davinci)
      [] OTHER -> 0

FailedRun == Run(1, <<>>)

\* A CLI tool asked about a device the host does not have fails.
RunsFor(d, h, b, idx, runs) ==
    IF 0 <= idx /\ idx < HostDeviceCount(d, h, b) THEN runs \cup {FailedRun}
    ELSE {FailedRun}

AmdMemoryOutcomes ==
    {<<Ok(1), Ok(2)>>, <<LibErr, Ok(2)>>, <<Ok(1), OtherErr>>}

\* Every way the NVML queries of one ECC call may go, and those of amdsmi.
EccScalarOutcomes == {Ok(1), Ok(2), LibErr, OtherErr}
NvidiaEccInputs == [1 .. (2 * NumLocations) -> EccScalarOutcomes]
AmdEccInputs == [1 .. NumBlocks -> PairOutcomes]
\* the same outcome at every query
NvidiaEccUniform == {[i \in 1 .. (2 * NumLocations) |-> o] : o \in {Ok(1), LibErr, OtherErr}}
AmdEccUniform == {[i \in 1 .. NumBlocks |-> o] : o \in PairOutcomes}

\* The labels a method looks for in the output of npu-smi.
AscendLabels(op) ==
    CASE op = "get_device_utilization" -> {"Aicore Usages Rate(%)"}
      [] op = "get_device_temperature" -> {"NPU Temperature (C)"}
      [] op = "get_device_power" -> {"NPU Real-time Power(W)"}
      [] op = "get_device_memory" -> {"HBM Capacity(MB)", "HBM Usages Rate(%)"}
      [] op = "get_device_ecc_error" -> {"HBM Single Bit Aggregate Total Err Cnt",
                                         "HBM Double Bit Aggregate Total Err Cnt"}
      [] OTHER -> {}

\* nvidia-smi -q outputs.
RemappedRowsLine == <<"Remapped", " ", "Rows">>
CorrectableLine == <<" ", "Correctable", " ", "Error", " ", ":", " ", "0">>
PendingLine == <<" ", "Pending", " ", ":", " ", "No">>
MaxBanksLine == <<" ", "Max", " ", ":", " ", "640", " ", "bank(s)">>
TemperatureLine == <<"Temperature">>
ClocksLine == <<"Clocks">>
SmiLines ==
    {RemappedRowsLine, CorrectableLine, PendingLine, MaxBanksLine, TemperatureLine, ClocksLine}

SampleBlock == <<RemappedRowsLine, CorrectableLine, PendingLine, TemperatureLine>>

SmiRuns == {Run(0, ls) : ls \in UNION {[1 .. n -> SmiLines] : n \in 0 .. MaxSmiLines}}
SmiSmokeRuns == {Run(0, SampleBlock), Run(0, <<ClocksLine>>)}

\* The inputs of one call of op with idx on manager d.
InputsOf(op, d, h, b, idx, P) ==
    CASE d.cls = "DeviceManager" -> {<<>>}
      [] d.cls = "AscendDeviceManager" ->
            IF AscendLabels(op) = {} THEN {<<>>} ELSE RunsFor(d, h, b, idx, P.npu[op])
      [] op = "get_device_row_remapped_info" ->
            IF d.cls = "NvidiaDeviceManager" THEN RunsFor(d, h, b, idx, P.smi) ELSE {<<>>}
      [] op = "get_device_compute_capability" ->
            IF d.cls = "NvidiaDeviceManager" THEN ScalarOutcomes ELSE {<<>>}
      [] op = "get_device_memory" ->
            IF d.cls = "NvidiaDeviceManager" THEN PairOutcomes ELSE AmdMemoryOutcomes
      [] op = "get_device_ecc_error" ->
            IF d.cls = "NvidiaDeviceManager" THEN P.ecc_nvidia ELSE P.ecc_amd
      [] OTHER -> ScalarOutcomes


AscendOps == {"get_device_utilization", "get_device_temperature", "get_device_power",
              "get_device_memory", "get_device_ecc_error"}

\* the labelled lines of op, in a fixed order, each with the text texts gives it
AscendLabelSeq(op) ==
    CASE op = "get_device_utilization" -> <<"Aicore Usages Rate(%)">>
      [] op = "get_device_temperature" -> <<"NPU Temperature (C)">>
      [] op = "get_device_power" -> <<"NPU Real-time Power(W)">>
      [] op = "get_device_memory" -> <<"HBM Capacity(MB)", "HBM Usages Rate(%)">>
      [] OTHER -> <<"HBM Single Bit Aggregate Total Err Cnt",
                    "HBM Double Bit Aggregate Total Err Cnt">>

LabelledRun(op, texts) ==
    Run(0, [i \in 1 .. Len(AscendLabelSeq(op)) |-> Line(AscendLabelSeq(op)[i], texts[i])])

\* A few npu-smi runs of each kind: no output, every field a plain integer, a
\* decimal number, no labelled line at all.
AscendSmokeRuns(op) ==
    {Run(0, <<>>),
     LabelledRun(op, <<IntText(32768), IntText(50)>>),
     LabelledRun(op, <<DecText(45, 5), DecText(45, 5)>>),
     Run(0, <<Line("Chip Name", WordText)>>)}

SmokePools ==
    [npu |-> [op \in AscendOps |-> AscendSmokeRuns(op)], smi |-> SmiSmokeRuns,
     ecc_nvidia |-> NvidiaEccUniform, ecc_amd |-> AmdEccUniform]

EccPools ==
    [npu |-> [op \in AscendOps |-> {}], smi |-> {},
     ecc_nvidia |-> NvidiaEccInputs, ecc_amd |-> AmdEccInputs]

RemapPools ==
    [npu |-> [op \in AscendOps |-> {}], smi |-> SmiRuns,
     ecc_nvidia |-> {}, ecc_amd |-> {}]

(***************************************************************************)
(* Import of device_manager.py, then calls on device_manager.              *)
(***************************************************************************)
\* lines 14-17: the library imported for the tag gpu.vendor gives
import_backend(v) ==
    IF v \in {"nvidia", "nvidia-graphics"} THEN "nvml"
    ELSE IF v \in {"amd", "amd-graphics"} THEN "rocml"
    ELSE "none"

\* lines 13-17: gpu = GPU(), then the conditional import
ImportProbe ==
    /\ pc = "boot"
    /\ vendor' = get_vendor(host)
    /\ lib' = import_backend(GPU_vendor(vendor', host))
    /\ pc' = "probed"
    /\ UNCHANGED <<host, backend, dm, call, touched, session>>

\* line 126: nvml.nvmlInit(), as the session call it is
nvmlInit(b) == IF b.fault = "init" THEN "init_raised" ELSE "init_ok"

\* line 330: rocml.amdsmi_init()
amdsmi_init(b) == IF b.fault = "init" THEN "init_raised" ELSE "init_ok"

\* The session calls of the constructor the selection runs for tag v: the
\* vendor constructors open the session first; the others open none.
constructor_session(v, b) ==
    IF v \in {"nvidia", "nvidia-graphics"} THEN <<nvmlInit(b)>>
    ELSE IF v \in {"amd", "amd-graphics"} THEN <<amdsmi_init(b)>>
    ELSE <<>>

\* lines 536-545
ImportSelect ==
    /\ pc = "probed"
    /\ LET made == select_device_manager(GPU_vendor(vendor, host), host, backend) IN
        /\ dm' = made.obj
        /\ session' = constructor_session(GPU_vendor(vendor, host), backend)
        /\ pc' = IF made.raised = "" THEN "ready" ELSE "failed"
        /\ touched' = made.io
        /\ call' = [NoCall EXCEPT !.op = "import",
                                  !.out = [raised |-> made.raised, ret |-> None,
                                           io |-> made.io]]
    /\ UNCHANGED <<host, backend, vendor, lib>>

\* No call is in progress: the module is imported and the last result was taken.
Idle == call.op \in {"", "import"}

\* The caller takes the result of the call; calls are made one after another.
Return ==
    /\ pc = "ready" /\ ~Idle
    /\ call' = NoCall
    /\ UNCHANGED <<host, backend, pc, vendor, dm, touched, lib, session>>

Done(op, idx, input, out) ==
    /\ call' = [op |-> op, idx |-> idx, input |-> input, out |-> out]
    /\ touched' = (touched \/ out.io)
    /\ UNCHANGED <<host, backend, pc, vendor, dm, lib, session>>

GetDeviceCount ==
    /\ pc = "ready" /\ Idle
    /\ Done("get_device_count", 0, <<>>, get_device_count(dm, host, backend))

GetDeviceComputeCapability(P) ==
    /\ pc = "ready" /\ Idle
    /\ \E input \in InputsOf("get_device_compute_capability", dm, host, backend, 0, P) :
        Done("get_device_compute_capability", 0, input,
             get_device_compute_capability(dm, input))

GetDeviceUtilization(P) ==
    /\ pc = "ready" /\ Idle
    /\ \E idx \in Indices :
       \E input \in InputsOf("get_device_utilization", dm, host, backend, idx, P) :
        Done("get_device_utilization", idx, input, get_device_utilization(dm, idx, input))

GetDeviceTemperature(P) ==
    /\ pc = "ready" /\ Idle
    /\ \E idx \in Indices :
       \E input \in InputsOf("get_device_temperature", dm, host, backend, idx, P) :
        Done("get_device_temperature", idx, input, get_device_temperature(dm, idx, input))

GetDevicePower(P) ==
    /\ pc = "ready" /\ Idle
    /\ \E idx \in Indices :
       \E input \in InputsOf("get_device_power", dm, host, backend, idx, P) :
        Done("get_device_power", idx, input, get_device_power(dm, idx, input))

GetDevicePowerLimit(P) ==
    /\ pc = "ready" /\ Idle
    /\ \E idx \in Indices :
       \E input \in InputsOf("get_device_power_limit", dm, host, backend, idx, P) :
        Done("get_device_power_limit", idx, input, get_device_power_limit(dm, idx, input))

GetDeviceMemory(P) ==
    /\ pc = "ready" /\ Idle
    /\ \E idx \in Indices :
       \E input \in InputsOf("get_device_memory", dm, host, backend, idx, P) :
        Done("get_device_memory", idx, input, get_device_memory(dm, idx, input))

GetDeviceRowRemappedInfo(P) ==
    /\ pc = "ready" /\ Idle
    /\ \E idx \in Indices :
       \E input \in InputsOf("get_device_row_remapped_info", dm, host, backend, idx, P) :
        Done("get_device_row_remapped_info", idx, input,
             get_device_row_remapped_info(dm, idx, input))

GetDeviceEccError(P) ==
    /\ pc = "ready" /\ Idle
    /\ \E idx \in Indices :
       \E input \in InputsOf("get_device_ecc_error", dm, host, backend, idx, P) :
        Done("get_device_ecc_error", idx, input, get_device_ecc_error(dm, idx, input))

\* The host gains or loses Ascend device nodes while the process runs (only
\* the Ascend manager reads them after import).
DeviceNodesChange ==
    /\ pc = "ready" /\ Idle
    /\ dm.cls = "AscendDeviceManager"
    /\ \E l \in Listings :
        /\ l # host.davinci
        /\ host' = [host EXCEPT !.davinci = l]
    /\ UNCHANGED <<backend, pc, vendor, dm, call, touched, lib, session>>

\* The backend library starts reporting another number of devices (only the
\* NVIDIA and AMD managers talk to it).
BackendCountChange ==
    /\ pc = "ready" /\ Idle
    /\ dm.cls \in {"NvidiaDeviceManager", "AmdDeviceManager"}
    /\ \E n \in 0 .. MaxDev :
        /\ n # backend.count
        /\ backend' = [backend EXCEPT !.count = n]
    /\ UNCHANGED <<host, pc, vendor, dm, call, touched, lib, session>>

\* Hosts at import: any mix of vendors' drivers, the nodes that only decide a
\* warning present with their driver, the minor descriptors present for every
\* device or for none; beside an NVIDIA or AMD driver the Ascend artifacts are
\* all absent or all present.
AscendAbsent(h) ==
    h.davinci_manager = "absent" /\ h.davinci = <<>> /\ h.minors = {} /\ ~h.npu_smi
AscendPresent(h) ==
    /\ h.davinci_manager = "dir" /\ h.minors = DevIds /\ h.npu_smi
    /\ h.davinci = [i \in 1 .. MaxDev |-> i - 1]

DriverWithNodes(h) ==
    /\ h.nvidia_nodes = h.nvidiactl
    /\ h.render = h.dri
    /\ h.kfd = h.dri
    /\ h.minors \in {{}, DevIds}
    /\ (h.nvidiactl \/ h.kfd) => (AscendAbsent(h) \/ AscendPresent(h))

BootHosts == {h \in Hosts : DriverWithNodes(h)}

HasBackend(h) == h.nvidiactl \/ h.kfd \/ h.win_nv \/ h.win_amd

BootInit(hosts) ==
    /\ host \in hosts
    /\ backend \in IF HasBackend(host) THEN Backends ELSE {NoBackend}
    /\ pc = "boot"
    /\ vendor = "unset"
    /\ dm = NoManager
    /\ call = NoCall
    /\ touched = FALSE
    /\ lib = "none"
    /\ session = <<>>

Init == BootInit(BootHosts)

Next ==
    \/ ImportProbe
    \/ ImportSelect
    \/ GetDeviceCount
    \/ GetDeviceComputeCapability(SmokePools)
    \/ GetDeviceUtilization(SmokePools)
    \/ GetDeviceTemperature(SmokePools)
    \/ GetDevicePower(SmokePools)
    \/ GetDevicePowerLimit(SmokePools)
    \/ GetDeviceMemory(SmokePools)
    \/ GetDeviceRowRemappedInfo(SmokePools)
    \/ GetDeviceEccError(SmokePools)
    \/ Return
    \/ DeviceNodesChange
    \/ BackendCountChange

Spec == Init /\ [][Next]_vars


(***************************************************************************)
(* The ECC query alone on NVIDIA and AMD hosts, with every combination of  *)
(* per-query outcomes; the row-remap query alone on NVIDIA hosts, with     *)
(* every nvidia-smi output of up to MaxSmiLines lines.                     *)
(***************************************************************************)
NvidiaHosts == {h \in BootHosts : h.os = "Linux" /\ h.nvidiactl /\ ~h.kfd /\ AscendAbsent(h)}
AmdHosts == {h \in BootHosts : h.os = "Linux" /\ h.kfd /\ ~h.nvidiactl /\ AscendAbsent(h)}

EccInit == BootInit(NvidiaHosts \cup AmdHosts)
EccNext == ImportProbe \/ ImportSelect \/ GetDeviceEccError(EccPools) \/ Return
SpecEcc == EccInit /\ [][EccNext]_vars

RemapInit == BootInit(NvidiaHosts)
RemapNext == ImportProbe \/ ImportSelect \/ GetDeviceRowRemappedInfo(RemapPools) \/ Return
SpecRemap == RemapInit /\ [][RemapNext]_vars


(***************************************************************************)
(* The whole process: import, reads of gpu.vendor and metric queries while *)
(* the host's artifacts change, then teardown.  The module constructs at   *)
(* most one vendor manager, so session is the log of that one instance.    *)
(***************************************************************************)
\* The vendor constructor ran, and its instance has not been finalized.
Allocated == session # <<>>
Finalized == \E i \in DOMAIN session : session[i] = "shutdown"

\* lines 133-135 and 334-336: __del__ calls nvml.nvmlShutdown() or
\* rocml.amdsmi_shut_down(), whatever the constructor did before.
manager_del(s) == Append(s, "shutdown")

\* The instance whose constructor raised is left unreferenced when the
\* exception has been dealt with, and the interpreter finalizes it.
Collect ==
    /\ pc = "failed" /\ Allocated /\ ~Finalized
    /\ session' = manager_del(session)
    /\ UNCHANGED <<host, backend, pc, vendor, dm, call, touched, lib>>

\* The interpreter exits.  It finalizes a live instance or not: Python does
\* not promise to run __del__ for the objects that exist at exit.
Exit ==
    /\ pc \in {"ready", "failed"} /\ Idle
    /\ pc' = "exited"
    /\ \E ran \in BOOLEAN :
        session' = IF Allocated /\ ~Finalized /\ ran THEN manager_del(session)
                   ELSE session
    /\ UNCHANGED <<host, backend, vendor, dm, call, touched, lib>>

\* Driver artifacts appear or disappear on the running host.
HostArtifactsChange ==
    /\ pc \in {"probed", "ready"} /\ Idle
    /\ \E h \in BootHosts :
        /\ h.os = host.os /\ h # host
        /\ host' = h
    /\ UNCHANGED <<backend, pc, vendor, dm, call, touched, lib, session>>

\* a read of gpu.vendor by the importing program
ReadVendor ==
    /\ pc \in {"probed", "ready"} /\ Idle
    /\ call' = [NoCall EXCEPT !.op = "vendor",
                              !.out = Returned(Some(GPU_vendor(vendor, host)))]
    /\ UNCHANGED <<host, backend, pc, vendor, dm, touched, lib, session>>

ProcessInit == BootInit(BootHosts)

ProcessNext ==
    \/ ImportProbe
    \/ ImportSelect
    \/ ReadVendor
    \/ GetVendor
    \/ GetDeviceCount
    \/ GetDeviceUtilization(SmokePools)
    \/ Return
    \/ HostArtifactsChange
    \/ Collect
    \/ Exit

SpecProcess == ProcessInit /\ [][ProcessNext]_vars

(***************************************************************************)
(* Claims.                                                                 *)
(***************************************************************************)
IndexedOps == {"get_device_utilization", "get_device_temperature", "get_device_power",
               "get_device_power_limit", "get_device_memory",
               "get_device_row_remapped_info", "get_device_ecc_error"}
QueryOps == IndexedOps \cup {"get_device_compute_capability"}

\* The documented unavailable value of an operation.
Unavailable(op) ==
    IF op \in {"get_device_memory", "get_device_ecc_error"} THEN NonePair ELSE None

InRange(idx) == 0 <= idx /\ idx < dm.device_count

\* C1: a per-device query called with an index outside [0, device_count),
\* negative ones included, returns the operation's unavailable value: never a
\* reading, a zero count or an exception.
C1_OutOfRangeUnavailable ==
    (pc = "ready" /\ call.op \in IndexedOps /\ ~InRange(call.idx))
        => call.out.raised = "" /\ call.out.ret = Unavailable(call.op)

\* C2: no query operation lets an exception reach its caller.
C2_NeverRaises ==
    (pc = "ready" /\ call.op \in QueryOps) => call.out.raised = ""

\* The constructor of the manager the vendor tag selects fails on this host.
ConstructionFails ==
    \/ vendor \in {"nvidia", "nvidia-graphics", "amd", "amd-graphics"}
        /\ backend.fault # "none"
    \/ vendor = "ascend" /\ ~host.npu_smi

\* C3: when the selected vendor manager fails to construct, the failure does
\* not leave the selection and device_manager is the base DeviceManager.
C3_SelectionFallsBack ==
    (pc \in {"ready", "failed"} /\ ConstructionFails)
        => pc = "ready" /\ dm.cls = "DeviceManager"

\* C6: the manager selected for vendor tag none is the base DeviceManager,
\* reports 0 devices, answers every query with its unavailable value for every
\* index, and never touches a backend, a process or the filesystem.
C6_NoOpManager ==
    (pc = "ready" /\ vendor = "none")
        => /\ dm.cls = "DeviceManager"
           /\ dm.device_count = 0
           /\ ~touched
           /\ call.out.raised = ""
           /\ call.op = "get_device_count" => call.out.ret = Some(0)
           /\ call.op \in QueryOps => call.out.ret = Unavailable(call.op)

C6_Witness ==
    /\ pc = "ready" /\ vendor = "none"
    /\ call.op = "get_device_ecc_error" /\ call.idx = 0
    /\ call.out.ret = NonePair
    /\ ~touched

\* The sum of the values of the successful outcomes of os at positions ps.
RECURSIVE SumOk(_, _, _)
SumOk(os, ps, part) ==
    IF ps = {} THEN 0
    ELSE LET p == CHOOSE x \in ps : TRUE IN
         (IF os[p].k = "ok" THEN (IF part = 0 THEN os[p].v[1] ELSE os[p].v[1][part]) ELSE 0)
         + SumOk(os, ps \ {p}, part)

\* The sums C7 names: NVIDIA asks the corrected counter at the odd and
\* the uncorrected counter at the even positions; AMD takes both of one answer.
ExpectedEcc ==
    IF dm.cls = "NvidiaDeviceManager"
    THEN <<Some(SumOk(call.input, {2 * l - 1 : l \in 1 .. NumLocations}, 0)),
           Some(SumOk(call.input, {2 * l : l \in 1 .. NumLocations}, 0))>>
    ELSE <<Some(SumOk(call.input, 1 .. NumBlocks, 1)),
           Some(SumOk(call.input, 1 .. NumBlocks, 2))>>

EccCase ==
    /\ pc = "ready" /\ call.op = "get_device_ecc_error"
    /\ dm.cls \in {"NvidiaDeviceManager", "AmdDeviceManager"}
    /\ InRange(call.idx)

SomeQuery(kind) == \E i \in DOMAIN call.input : call.input[i].k = kind

\* C7 as claimed: for a valid index the pair is always the sums over the
\* queries that succeeded.
C7_AlwaysSums ==
    EccCase => call.out.ret = ExpectedEcc

\* C7 as amended: the pair is the sums over the queries that succeeded, a query
\* that raises the library's own error adding nothing (all of them raising it
\* gives (0, 0)); on AMD any other exception adds nothing either, on NVIDIA any
\* other exception makes the result (None, None).
C7_EccAccumulation ==
    EccCase =>
        /\ call.out.raised = ""
        /\ IF dm.cls = "NvidiaDeviceManager" /\ SomeQuery("other")
           THEN call.out.ret = NonePair
           ELSE call.out.ret = ExpectedEcc
        /\ (\A i \in DOMAIN call.input : call.input[i].k = "liberr")
                => call.out.ret = <<Some(0), Some(0)>>

C7_Witness ==
    /\ EccCase /\ dm.cls = "NvidiaDeviceManager"
    /\ SomeQuery("ok") /\ SomeQuery("liberr") /\ ~SomeQuery("other")
    /\ call.input[1].k = "liberr" /\ call.input[2] = Ok(2)
    /\ call.out.ret = ExpectedEcc
    /\ call.out.ret[2] # Some(0)


\* The index of the first line of ls at or after from that is in hs, 0 if none.
FirstLine(ls, hs, from) ==
    LET at == {i \in from .. Len(ls) : ls[i] \in hs} IN
    IF at = {} THEN 0 ELSE Min(at)

CorrectableItem == <<(<<"gpu_remap_", "correctable", "_", "error">>), 0>>
MaxBanksItem == <<(<<"gpu_remap_", "max">>), 640>>

\* The item a `key : value` line stands for, per line of the output.
ItemOf(line) == IF line = CorrectableLine THEN CorrectableItem ELSE MaxBanksItem

\* The report as the set of its items, and that no key occurs twice.
Items(report) == {report[i] : i \in 1 .. Len(report)}
KeysDistinct(report) ==
    \A i, j \in 1 .. Len(report) : report[i][1] = report[j][1] => i = j

RemapCase ==
    /\ pc = "ready" /\ call.op = "get_device_row_remapped_info"
    /\ dm.cls = "NvidiaDeviceManager"
    /\ call.input.returncode = 0

\* the lines of ls strictly between lines i and j that are among kinds
Between(ls, i, j, kinds) == {ls[n] : n \in {m \in (i + 1) .. (j - 1) : ls[m] \in kinds}}

\* C8 as claimed, on the outputs whose section is closed by the Temperature
\* header: the report holds exactly the lines of the section whose value is an
\* integer (of the lines here, Correctable Error : 0 alone; Max : 640 bank(s)
\* and Pending : No are not integers).
C8_OnlyIntegerValues ==
    LET ls == call.input.stdout
        hdr == FirstLine(ls, {RemappedRowsLine}, 1)
        nxt == FirstLine(ls, {TemperatureLine, ClocksLine}, hdr + 1)
    IN  (RemapCase /\ hdr # 0 /\ nxt # 0 /\ ls[nxt] = TemperatureLine)
            => /\ call.out.ret # None
               /\ Items(call.out.ret[1])
                    = {ItemOf(l) : l \in Between(ls, hdr, nxt, {CorrectableLine})}

\* C8 as amended: the report is built when "Remapped Rows" is followed by
\* "Temperature" (None otherwise), from the lines between the two that hold a
\* colon; a line is in it, under its normalised key, exactly when its value with
\* "bank(s)" removed and trimmed is an integer, so Max : 640 bank(s) gives
\* gpu_remap_max = 640 and Pending : No is left out.  The sample block gives
\* gpu_remap_correctable_error = 0 and nothing else.
C8_RowRemapReport ==
    LET ls == call.input.stdout
        hdr == FirstLine(ls, {RemappedRowsLine}, 1)
        tmp == FirstLine(ls, {TemperatureLine}, hdr + 1)
    IN  RemapCase =>
            /\ call.out.raised = ""
            /\ IF hdr # 0 /\ tmp # 0
               THEN /\ call.out.ret # None
                    /\ KeysDistinct(call.out.ret[1])
                    /\ Items(call.out.ret[1])
                        = {ItemOf(l) :
                            l \in Between(ls, hdr, tmp, {CorrectableLine, MaxBanksLine})}
               ELSE call.out.ret = None
            /\ ls = SampleBlock => call.out.ret = Some(<<CorrectableItem>>)

C8_Witness ==
    /\ RemapCase
    /\ call.input.stdout
        = <<RemappedRowsLine, MaxBanksLine, CorrectableLine, TemperatureLine>>
    /\ call.out.ret = Some(<<MaxBanksItem, CorrectableItem>>)

\* The number a labelled line of the run gives, <<>> when no line gives one.
FieldOf(run, label) ==
    LET at == {i \in 1 .. Len(run.stdout) :
                 run.stdout[i].label = label /\ run.stdout[i].text.k = "int"}
    IN  IF at = {} THEN <<>> ELSE <<run.stdout[Min(at)].text.whole>>

MemoryCase ==
    /\ pc = "ready" /\ call.op = "get_device_memory"
    /\ dm.cls = "AscendDeviceManager"

\* Whether some line of the run carries the label at all.
Labelled(run, label) == \E i \in 1 .. Len(run.stdout) : run.stdout[i].label = label

\* C9: when one run yields capacity C and usage P, the first element of the
\* returned pair is C * P (1638400 for 32768 and 50); when a field is missing
\* or the tool fails the pair is (None, None).
C9_UsedIsCapacityTimesUsage ==
    MemoryCase =>
        LET C == FieldOf(call.input, "HBM Capacity(MB)")
            P == FieldOf(call.input, "HBM Usages Rate(%)")
        IN  /\ (call.input.returncode = 0 /\ C # <<>> /\ P # <<>>)
                => /\ call.out.raised = ""
                   /\ call.out.ret[1] = Some(C[1] * P[1])
            /\ (call.input.returncode # 0
                    \/ ~Labelled(call.input, "HBM Capacity(MB)")
                    \/ ~Labelled(call.input, "HBM Usages Rate(%)"))
                => call.out.ret = NonePair

\* C10: the handle list is as long as the captured device count, and
\* get_device_count() returns the captured count whatever the host's device
\* nodes or the backend report by then.
C10_CountFixedAtConstruction ==
    pc = "ready" =>
        /\ dm.has_handlers => Len(dm.device_handlers) = dm.device_count
        /\ call.op = "get_device_count" => call.out.ret = Some(dm.device_count)


\* C11: every shutdown call on the backend library follows a successful
\* session init of the instance (none is made for an instance whose init
\* raised), and a session that was opened has been shut down by the time the
\* process has exited.
C11_SessionLifecycle ==
    /\ \A i \in DOMAIN session :
        session[i] = "shutdown" => \E j \in 1 .. (i - 1) : session[j] = "init_ok"
    /\ (pc = "exited" /\ \E j \in DOMAIN session : session[j] = "init_ok") => Finalized

\* The manager variant the selection constructs for a vendor tag.
VariantOf(v) ==
    IF v \in {"nvidia", "nvidia-graphics"} THEN "NvidiaDeviceManager"
    ELSE IF v \in {"amd", "amd-graphics"} THEN "AmdDeviceManager"
    ELSE IF v = "ascend" THEN "AscendDeviceManager"
    ELSE "DeviceManager"

\* The step that constructs GPU computes the tag from the host; no later step
\* changes it; the selection step binds the variant of that tag (the base
\* DeviceManager when that variant's constructor fails).
TagSteps ==
    /\ pc = "boot" /\ pc' # "boot" => vendor' = get_vendor(host)
    /\ pc # "boot" => vendor' = vendor
    /\ pc = "probed" /\ pc' # "probed"
        => dm'.cls = IF ConstructionFails THEN "DeviceManager" ELSE VariantOf(vendor)

\* C12: the vendor tag is computed once, when GPU is constructed, and never
\* again: whatever the host's artifacts have become and whatever was queried,
\* the vendor property returns the tag computed at construction, the imported
\* backend library is the one of that tag and the selection constructs the
\* variant of that tag.
C12_VendorComputedOnce ==
    /\ [](call.op = "vendor" => call.out.raised = "" /\ call.out.ret = Some(vendor))
    /\ [](pc # "boot" => lib = import_backend(vendor))
    /\ [][TagSteps]_vars

C12_Witness ==
    /\ pc = "ready" /\ call.op = "vendor"
    /\ vendor = "nvidia" /\ get_vendor(host) = "amd"
    /\ call.out.ret = Some("nvidia")
    /\ lib = "nvml" /\ dm.cls = "NvidiaDeviceManager"

====
